---- MODULE Spec2Model ----
(***************************************************************************)
(* Model of whisper_tools/transcribe_batch.py: the batch command (main,    *)
(* batch_transcribe), the per-file job (process_single_file) and the part  *)
(* of whisper_tools/transcribe_file.py the job calls (transcribe_file and  *)
(* the save_as_* writers).                                                 *)
(*                                                                         *)
(* Strings of the program that are not ASCII are written romanised:        *)
(* "tiaoguo" is the word the skip message starts with and the tally looks  *)
(* for, "wancheng" starts the success message, "shibai" the failure one.   *)
(* A message is the sequence of its pieces, and a substring test on the    *)
(* message is a membership test on the pieces.                             *)
(***************************************************************************)
EXTENDS Naturals, Integers, Sequences, FiniteSets, TLC

(***************************************************************************)
(* Bounds of the model.                                                    *)
(***************************************************************************)
MaxFiles == 2
MaxWorkers == 2
MaxTextLen == 24
MaxMillis == 1100

(***************************************************************************)
(* Program constants.                                                      *)
(***************************************************************************)
\* sys.exit(1) of batch_transcribe when the input is missing or no directory
ExitBadInput == 1
\* sys.exit(1) of main on KeyboardInterrupt
ExitInterrupt == 1
\* sys.exit(1) of main on any other exception
ExitError == 1
\* the status of a process whose main returns
ExitOk == 0
\* transcribe_file returns (text, segments, metadata)
TranscribeFileReturns == 3
\* process_single_file unpacks the return value into (text, segments)
UnpackTargets == 2
\* save_as_json(text, segments, metadata, output_path)
SaveAsJsonParams == 4
\* process_single_file calls save_as_json({...}, str(json_path))
SaveAsJsonArgs == 2
\* the status while the process has not exited
Running == 0 - 1

Range(s) == {s[i] : i \in 1..Len(s)}

\* the order in which process_single_file tests and writes the formats
FormatOrder == <<"txt", "srt", "json">>
Formats == Range(FormatOrder)

SkipWord == "tiaoguo"
DoneWord == "wancheng"
FailWord == "shibai"

AUDIO_EXTENSIONS == {"mp3", "wav", "flac", "aac", "ogg", "m4a", "wma"}
VIDEO_EXTENSIONS == {"mp4", "avi", "mov", "mkv", "flv", "wmv", "webm", "m4v"}

is_audio(f) == f.ext \in AUDIO_EXTENSIONS
is_video(f) == f.ext \in VIDEO_EXTENSIONS

(***************************************************************************)
(* The media files an input directory may hold, in the order sorted()      *)
(* gives their paths.  dir is the directory relative to the input          *)
(* directory ("" for the input directory itself).                          *)
(***************************************************************************)
Catalog ==
    << [dir |-> "", stem |-> "a", ext |-> "mp3"],
       [dir |-> "", stem |-> "a", ext |-> "mp4"],
       [dir |-> "", stem |-> "b", ext |-> "wav"],
       [dir |-> SkipWord, stem |-> "a", ext |-> "mp3"] >>

\* the subsequence of s at the positions in idx, in order
RECURSIVE SubSeqAt(_, _, _)
SubSeqAt(s, idx, i) ==
    IF i > Len(s) THEN << >>
    ELSE (IF i \in idx THEN << s[i] >> ELSE << >>) \o SubSeqAt(s, idx, i + 1)

\* the sorted lists find_media_files can return
MediaLists ==
    LET media == { k \in 1..Len(Catalog) : is_audio(Catalog[k]) \/ is_video(Catalog[k]) }
    IN  { SubSeqAt(Catalog, idx, 1) :
            idx \in { s \in SUBSET media : Cardinality(s) <= MaxFiles } }

\* the lists of formats the runs of the model pass: none, one, the default,
\* the default in the other order, one format named twice, all three
FormatLists ==
    { << >>, << "txt" >>, << "txt", "srt" >>, << "srt", "txt" >>,
      << "txt", "txt" >>, << "txt", "srt", "json" >> }

(***************************************************************************)
(* Paths of process_single_file.                                           *)
(***************************************************************************)
\* relative_path.parent: the directory of the file relative to the input
relative_parent(f) == f.dir
\* output_dir = output_base / relative_path.parent
output_dir(f) == relative_parent(f)
\* base_name = input_file.stem
base_name(f) == f.stem
\* output_dir / f"{base_name}.{fmt}"
OutputPath(f, fmt) == [dir |-> output_dir(f), name |-> base_name(f), ext |-> fmt]

\* the output paths a job has for a list of formats
OutputPaths(f, fmts) == { OutputPath(f, fmt) : fmt \in Range(fmts) \cap Formats }

(***************************************************************************)
(* The skip check of process_single_file.                                  *)
(***************************************************************************)
\* existing_files: one entry per format of FormatOrder that is in formats
\* and whose output file exists
RECURSIVE ExistingFrom(_, _, _, _)
ExistingFrom(f, fmts, disk, k) ==
    IF k > Len(FormatOrder) THEN << >>
    ELSE (IF FormatOrder[k] \in Range(fmts) /\ OutputPath(f, FormatOrder[k]) \in disk
          THEN << FormatOrder[k] >> ELSE << >>)
         \o ExistingFrom(f, fmts, disk, k + 1)

existing_files(f, fmts, disk) == ExistingFrom(f, fmts, disk, 1)

\* a plausible slip: the comparison of the two lengths relaxed
SkipTestLoose(existing, fmts) == Len(existing) <= Len(fmts)

\* len(existing_files) == len(formats)
SkipTest(existing, fmts) == Len(existing) = Len(fmts)

\* the job skips the file
ShouldSkip(f, fmts, frc, disk) ==
    (~frc) /\ SkipTest(existing_files(f, fmts, disk), fmts)

(***************************************************************************)
(* The output files a run can find for a media file when it starts: none,  *)
(* only the first of the requested ones, or all the requested ones.        *)
(***************************************************************************)
PreStates == {"none", "first", "all"}

PreFiles(f, fmts, st) ==
    LET present == { fmt \in Formats : fmt \in Range(fmts) }
        first == CHOOSE fmt \in present :
                    \A k \in 1..Len(FormatOrder) :
                        FormatOrder[k] \in present =>
                            \E m \in 1..k : FormatOrder[m] = fmt
    IN  IF st = "none" \/ present = {} THEN {}
        ELSE IF st = "first" THEN { OutputPath(f, first) }
        ELSE OutputPaths(f, fmts)

\* the sets of output files a run can start with
PreDisks(files, fmts) ==
    { UNION { PreFiles(files[i], fmts, pre[i]) : i \in 1..Len(files) } :
        pre \in [1..Len(files) -> PreStates] }

(***************************************************************************)
(* The value process_single_file returns: (success, message).              *)
(***************************************************************************)
NoResult == [success |-> FALSE, message |-> << >>]
\* return True, f"tiaoguo {relative_path} (...)"
SkipResult(f) == [success |-> TRUE, message |-> << SkipWord, f.dir, f.stem, f.ext >>]
\* return True, f"wancheng {relative_path} [...] (...)"
DoneResult(f) == [success |-> TRUE, message |-> << DoneWord, f.dir, f.stem, f.ext >>]
\* return False, f"shibai {relative_path}: {str(e)}"
FailResult(f) == [success |-> FALSE, message |-> << FailWord, f.dir, f.stem, f.ext >>]

(***************************************************************************)
(* The call of transcribe_file and the writes that follow it.              *)
(***************************************************************************)
\* an unpacking that takes a tuple of any length
unpack_any(n) == TRUE

\* text, segments = <a tuple of n values>: ValueError unless n = 2
unpack_ok(n) == n = UnpackTargets

\* a call binds when it passes as many arguments as the function requires
call_binds(args, params) == args = params

\* the formats of FormatOrder that are in formats: the writes of one job
RECURSIVE WritePlanFrom(_, _)
WritePlanFrom(fmts, k) ==
    IF k > Len(FormatOrder) THEN << >>
    ELSE (IF FormatOrder[k] \in Range(fmts) THEN << FormatOrder[k] >> ELSE << >>)
         \o WritePlanFrom(fmts, k + 1)

WritePlan(fmts) == WritePlanFrom(fmts, 1)

\* the writer of a format raises before it opens the file
WriterRaises(fmt) ==
    fmt = "json" /\ ~call_binds(SaveAsJsonArgs, SaveAsJsonParams)

\* how many writes of plan are done when the filesystem accepts `accepted`
\* of them: the job stops at the first writer that raises
RECURSIVE WritesDone(_, _, _)
WritesDone(plan, accepted, k) ==
    IF k > Len(plan) \/ k > accepted \/ WriterRaises(plan[k]) THEN k - 1
    ELSE WritesDone(plan, accepted, k + 1)

\* lines 119-143: the job from the call of transcribe_file to its return.
\* engineRaises: transcribe_file raises; accepted: the number of writes the
\* filesystem accepts before one raises.
Transcribed(f, fmts, disk, engineRaises, accepted) ==
    IF engineRaises
    THEN [ret |-> FailResult(f), disk |-> disk, raised |-> "engine"]
    ELSE IF ~unpack_ok(TranscribeFileReturns)
    THEN [ret |-> FailResult(f), disk |-> disk, raised |-> "unpack"]
    ELSE LET plan == WritePlan(fmts)
             n == WritesDone(plan, accepted, 1)
             written == { OutputPath(f, plan[k]) : k \in 1..n }
         IN  IF n = Len(plan)
             THEN [ret |-> DoneResult(f), disk |-> disk \cup written, raised |-> "none"]
             ELSE [ret |-> FailResult(f), disk |-> disk \cup written,
                   raised |-> IF n < accepted THEN "writer" ELSE "write"]

(***************************************************************************)
(* The counters of batch_transcribe.                                       *)
(***************************************************************************)
\* a tally that loses the failures
TallyLosesFail(counts, r) ==
    IF r.success
    THEN IF SkipWord \in Range(r.message)
         THEN [counts EXCEPT !.skip = @ + 1]
         ELSE [counts EXCEPT !.success = @ + 1]
    ELSE counts

\* if success: if "tiaoguo" in message: skip_count += 1 else success_count += 1
\* else fail_count += 1
Tally(counts, r) ==
    IF r.success
    THEN IF SkipWord \in Range(r.message)
         THEN [counts EXCEPT !.skip = @ + 1]
         ELSE [counts EXCEPT !.success = @ + 1]
    ELSE [counts EXCEPT !.fail = @ + 1]

ZeroCounts == [success |-> 0, skip |-> 0, fail |-> 0]

(***************************************************************************)
(* State of the components that are checked on their own: the audio        *)
(* extraction of transcribe_file, the subtitle writer, the timestamp       *)
(* formatter and the media scan.  A component that is not running is off.  *)
(***************************************************************************)
VARIABLES
    v_file,         \* the file transcribe_file is called for
    v_pc,           \* where transcribe_file is
    v_fault,        \* the step of the video transcription that raises
    v_close_raises, \* video_clip.close() raises
    temp_audio,     \* the local temp_audio: "None" or the name of the file
    tmp_exists,     \* the temporary audio file exists
    clip_open,      \* the local video_clip is set
    v_outcome,      \* how _transcribe_video ended
    w_text,         \* segment["text"]
    w_max,          \* max_line_length
    w_out,          \* the cue text save_as_srt writes
    w_pc,           \* where the subtitle writer is
    t_ms,           \* the time to format, in milliseconds
    t_out,          \* the fields _format_timestamp prints
    t_pc,           \* where the formatter is
    c_tree,         \* the entries under the input directory
    c_recursive,    \* the recursive flag
    c_extensions,   \* the extensions argument of batch_transcribe
    c_out,          \* the list find_media_files returned
    c_pc            \* where the scan is

video_vars == << v_file, v_pc, v_fault, v_close_raises, temp_audio, tmp_exists, clip_open, v_outcome >>
wrap_vars == << w_text, w_max, w_out, w_pc >>
stamp_vars == << t_ms, t_out, t_pc >>
catalog_vars == << c_tree, c_recursive, c_extensions, c_out, c_pc >>
side == << video_vars, wrap_vars, stamp_vars, catalog_vars >>

VideoOff ==
    /\ v_file = Catalog[1]
    /\ v_pc = "off" /\ v_fault = "none" /\ v_close_raises = FALSE
    /\ temp_audio = "None" /\ tmp_exists = FALSE /\ clip_open = FALSE
    /\ v_outcome = "none"
WrapOff == w_text = << >> /\ w_max = 0 /\ w_out = << >> /\ w_pc = "off"
StampOff == t_ms = 0 /\ t_out = << >> /\ t_pc = "off"
CatalogOff ==
    /\ c_tree = {} /\ c_recursive = FALSE
    /\ c_extensions = [given |-> FALSE, list |-> << >>]
    /\ c_out = << >> /\ c_pc = "off"

(***************************************************************************)
(* State of the batch command.                                             *)
(***************************************************************************)
VARIABLES
    input_kind,     \* the input path: "dir", "missing" or "file"
    found,          \* the sorted media files of the input directory
    formats,        \* the list of requested formats
    force,          \* the force flag
    max_workers,    \* the worker count
    engine_raises,  \* the positions of the files transcribe_file raises for
    disk0,          \* the output files that exist when the run starts
    disk,           \* the output files that exist
    pc,             \* where main and batch_transcribe are
    media_files,    \* the list find_media_files returned
    jpc,            \* where each job is
    job_out,        \* output_dir and base_name of each started job
    ret,            \* what each job returned
    raised,         \* the exception that ended each job
    gateway_calls,  \* the calls of transcribe_file for each file
    tallied,        \* how often each file was counted
    counts,         \* success_count, skip_count, fail_count
    exit_status,    \* the exit status of the process
    exit_cause      \* why the process exited

inputs == << input_kind, found, formats, force, max_workers, engine_raises, disk0 >>
jobs == << jpc, job_out, ret, raised, gateway_calls >>
batch_vars == << input_kind, found, formats, force, max_workers, engine_raises, disk0,
                 disk, pc, media_files, jpc, job_out, ret, raised, gateway_calls,
                 tallied, counts, exit_status, exit_cause >>
vars == << batch_vars, side >>

N == Len(media_files)
Jobs == 1..N

NoOut == [dir |-> "", name |-> ""]

\* the state of a batch command that has not started
BatchStart ==
    /\ disk = disk0
    /\ pc = "start"
    /\ media_files = << >>
    /\ jpc = << >>
    /\ job_out = << >>
    /\ ret = << >>
    /\ raised = << >>
    /\ gateway_calls = << >>
    /\ tallied = << >>
    /\ counts = ZeroCounts
    /\ exit_status = Running
    /\ exit_cause = "none"

\* a batch command that is not run
BatchOff ==
    /\ input_kind = "dir" /\ found = << >> /\ formats = << >> /\ force = FALSE
    /\ max_workers = 1 /\ engine_raises = {} /\ disk0 = {}
    /\ BatchStart

Init ==
    /\ input_kind \in {"dir", "missing", "file"}
    /\ found \in (IF input_kind = "dir" THEN MediaLists ELSE { << >> })
    /\ formats \in FormatLists
    /\ force \in BOOLEAN
    /\ max_workers \in 0..MaxWorkers
    /\ engine_raises \in SUBSET (1..Len(found))
    /\ disk0 \in PreDisks(found, formats)
    /\ BatchStart
    /\ VideoOff /\ WrapOff /\ StampOff /\ CatalogOff

Exit(status, cause) ==
    /\ pc' = "exit"
    /\ exit_status' = status
    /\ exit_cause' = cause

(***************************************************************************)
(* batch_transcribe up to the dispatch of the jobs.                        *)
(***************************************************************************)
\* lines 180-186: the input directory is checked
CheckInput ==
    /\ pc = "start"
    /\ IF input_kind = "dir"
       THEN pc' = "scan" /\ UNCHANGED << exit_status, exit_cause >>
       ELSE Exit(ExitBadInput, "baddir")
    /\ UNCHANGED << side, inputs, disk, media_files, jobs, tallied, counts >>

\* lines 199-215: the scan, the return when nothing is found, the counters
Scan ==
    /\ pc = "scan"
    /\ media_files' = found
    /\ jpc' = [i \in 1..Len(found) |-> "idle"]
    /\ job_out' = [i \in 1..Len(found) |-> NoOut]
    /\ ret' = [i \in 1..Len(found) |-> NoResult]
    /\ raised' = [i \in 1..Len(found) |-> "none"]
    /\ gateway_calls' = [i \in 1..Len(found) |-> 0]
    /\ tallied' = [i \in 1..Len(found) |-> 0]
    /\ counts' = ZeroCounts
    /\ IF found = << >>
       THEN Exit(ExitOk, "nofiles")
       ELSE /\ pc' = IF max_workers = 1 THEN "loop" ELSE "pool"
            /\ UNCHANGED << exit_status, exit_cause >>
    /\ UNCHANGED << side, inputs, disk >>

\* line 233: ThreadPoolExecutor(max_workers) raises ValueError for a count
\* below 1; main reports it and exits
OpenPool ==
    /\ pc = "pool"
    /\ IF max_workers <= 0
       THEN Exit(ExitError, "error")
       ELSE pc' = "submit" /\ UNCHANGED << exit_status, exit_cause >>
    /\ UNCHANGED << side, inputs, disk, media_files, jobs, tallied, counts >>

(***************************************************************************)
(* process_single_file: the job of the file at position i.                 *)
(***************************************************************************)
\* lines 94-113: the output directory, the base name and the skip check
JobBegin(i) ==
    /\ pc /= "exit"
    /\ i \in Jobs
    /\ jpc[i] = "begin"
    /\ job_out' = [job_out EXCEPT ![i] =
                     [dir |-> output_dir(media_files[i]), name |-> base_name(media_files[i])]]
    /\ IF ShouldSkip(media_files[i], formats, force, disk)
       THEN /\ jpc' = [jpc EXCEPT ![i] = "finished"]
            /\ ret' = [ret EXCEPT ![i] = SkipResult(media_files[i])]
       ELSE /\ jpc' = [jpc EXCEPT ![i] = "transcribe"]
            /\ UNCHANGED ret
    /\ UNCHANGED << side, inputs, disk, pc, media_files, raised, gateway_calls, tallied,
                    counts, exit_status, exit_cause >>

\* lines 119-143: the call of transcribe_file, the writes, the return
JobTranscribe(i) ==
    /\ pc /= "exit"
    /\ i \in Jobs
    /\ jpc[i] = "transcribe"
    /\ \E accepted \in 0..Len(WritePlan(formats)) :
         LET o == Transcribed(media_files[i], formats, disk, i \in engine_raises, accepted)
         IN  /\ ret' = [ret EXCEPT ![i] = o.ret]
             /\ raised' = [raised EXCEPT ![i] = o.raised]
             /\ disk' = o.disk
    /\ gateway_calls' = [gateway_calls EXCEPT ![i] = @ + 1]
    /\ jpc' = [jpc EXCEPT ![i] = "finished"]
    /\ UNCHANGED << side, inputs, pc, media_files, job_out, tallied, counts,
                    exit_status, exit_cause >>

(***************************************************************************)
(* batch_transcribe with max_workers = 1: the loop of lines 217-230.       *)
(***************************************************************************)
\* a loop that does not wait for the files before position i
AllBeforeLoose(i) == TRUE

\* every file before position i has been counted
AllBefore(i) == \A j \in 1..(i - 1) : jpc[j] = "collected"

\* line 218: the loop calls process_single_file for the next file
SeqCall(i) ==
    /\ pc = "loop"
    /\ i \in Jobs
    /\ jpc[i] = "idle"
    /\ AllBefore(i)
    /\ jpc' = [jpc EXCEPT ![i] = "begin"]
    /\ UNCHANGED << side, inputs, disk, pc, media_files, job_out, ret, raised,
                    gateway_calls, tallied, counts, exit_status, exit_cause >>

\* lines 222-230: the result of the call is counted
SeqTally(i) ==
    /\ pc = "loop"
    /\ i \in Jobs
    /\ jpc[i] = "finished"
    /\ counts' = Tally(counts, ret[i])
    /\ tallied' = [tallied EXCEPT ![i] = @ + 1]
    /\ jpc' = [jpc EXCEPT ![i] = "collected"]
    /\ UNCHANGED << side, inputs, disk, pc, media_files, job_out, ret, raised,
                    gateway_calls, exit_status, exit_cause >>

(***************************************************************************)
(* batch_transcribe with max_workers > 1: the pool of lines 233-255.       *)
(***************************************************************************)
\* the jobs a worker thread is running
InFlight == { j \in Jobs : jpc[j] \in {"begin", "transcribe"} }

\* lines 235-242: the next file is submitted; after the last one the loop
\* over as_completed starts
Submit(i) ==
    /\ pc = "submit"
    /\ i \in Jobs
    /\ jpc[i] = "idle"
    /\ \A j \in 1..(i - 1) : jpc[j] /= "idle"
    /\ jpc' = [jpc EXCEPT ![i] = "queued"]
    /\ pc' = IF i = N THEN "collect" ELSE "submit"
    /\ UNCHANGED << side, inputs, disk, media_files, job_out, ret, raised,
                    gateway_calls, tallied, counts, exit_status, exit_cause >>

\* a pool that runs a queued job whatever the number of running ones
WorkerAlwaysFree(running, workers) == TRUE

\* line 233: the executor has max_workers threads, each runs one job at a time
WorkerFree(running, workers) == running < workers

\* a free worker thread takes the oldest queued job
WorkerTake(i) ==
    /\ pc \in {"submit", "collect", "draining"}
    /\ i \in Jobs
    /\ jpc[i] = "queued"
    /\ \A j \in 1..(i - 1) : jpc[j] /= "queued"
    /\ WorkerFree(Cardinality(InFlight), max_workers)
    /\ jpc' = [jpc EXCEPT ![i] = "begin"]
    /\ UNCHANGED << side, inputs, disk, pc, media_files, job_out, ret, raised,
                    gateway_calls, tallied, counts, exit_status, exit_cause >>

\* lines 245-255: as_completed yields a finished future and it is counted
Collect(i) ==
    /\ pc = "collect"
    /\ i \in Jobs
    /\ jpc[i] = "finished"
    /\ counts' = Tally(counts, ret[i])
    /\ tallied' = [tallied EXCEPT ![i] = @ + 1]
    /\ jpc' = [jpc EXCEPT ![i] = "collected"]
    /\ UNCHANGED << side, inputs, disk, pc, media_files, job_out, ret, raised,
                    gateway_calls, exit_status, exit_cause >>

\* lines 257-260: the summary is logged, batch_transcribe and main return
Summary ==
    /\ pc \in {"loop", "collect"}
    /\ \A j \in Jobs : jpc[j] = "collected"
    /\ Exit(ExitOk, "completed")
    /\ UNCHANGED << side, inputs, disk, media_files, jobs, tallied, counts >>

(***************************************************************************)
(* KeyboardInterrupt: raised in the main thread.                           *)
(***************************************************************************)
\* Outside the pool, nothing of batch_transcribe catches it (the handler of
\* process_single_file catches Exception only): main logs and exits.
\* Inside the with block, the executor is shut down with wait=True first:
\* every submitted job still runs.
Interrupt ==
    /\ pc \in {"start", "scan", "pool", "loop", "submit", "collect"}
    /\ IF pc \in {"submit", "collect"}
       THEN pc' = "draining" /\ UNCHANGED << exit_status, exit_cause >>
       ELSE Exit(ExitInterrupt, "interrupt")
    /\ UNCHANGED << side, inputs, disk, media_files, jobs, tallied, counts >>

\* the executor has shut down: lines 321-323
Drained ==
    /\ pc = "draining"
    /\ \A j \in Jobs : jpc[j] \notin {"queued", "begin", "transcribe"}
    /\ Exit(ExitInterrupt, "interrupt")
    /\ UNCHANGED << side, inputs, disk, media_files, jobs, tallied, counts >>

Next ==
    \/ CheckInput
    \/ Scan
    \/ OpenPool
    \/ \E i \in Jobs : JobBegin(i)
    \/ \E i \in Jobs : JobTranscribe(i)
    \/ \E i \in Jobs : SeqCall(i)
    \/ \E i \in Jobs : SeqTally(i)
    \/ \E i \in Jobs : Submit(i)
    \/ \E i \in Jobs : WorkerTake(i)
    \/ \E i \in Jobs : Collect(i)
    \/ Summary
    \/ Interrupt
    \/ Drained

Spec == Init /\ [][Next]_vars

(***************************************************************************)
(* Runs over a directory that holds more files than the pool has workers.  *)
(***************************************************************************)
\* the sorted lists of MaxFiles + 1 files
PoolLists ==
    { SubSeqAt(Catalog, idx, 1) :
        idx \in { s \in SUBSET (1..Len(Catalog)) : Cardinality(s) = MaxFiles + 1 } }

\* the output directory before the run: every file in the same state
PoolDisks(files, fmts) ==
    { UNION { PreFiles(files[i], fmts, st) : i \in 1..Len(files) } : st \in PreStates }

InitPool ==
    /\ input_kind \in {"dir", "missing", "file"}
    /\ found \in (IF input_kind = "dir" THEN PoolLists ELSE { << >> })
    /\ formats = << "txt", "srt" >>
    /\ force \in BOOLEAN
    /\ max_workers \in 0..MaxWorkers
    /\ engine_raises \in { {}, {1} \cap (1..Len(found)) }
    /\ disk0 \in PoolDisks(found, formats)
    /\ BatchStart
    /\ VideoOff /\ WrapOff /\ StampOff /\ CatalogOff

SpecPool == InitPool /\ [][Next]_vars

(***************************************************************************)
(* transcribe_file for one file: _transcribe_audio for an audio file,      *)
(* _transcribe_video with extract_audio_from_video for a video file.       *)
(* v_fault names the step that raises, if any.  The temporary directory    *)
(* honours os.remove for a closed file that exists.                        *)
(***************************************************************************)
VideoFaults == {"none", "tmpfile", "open", "noaudio", "extract", "engine"}

\* tmp_audio.name of line 151
TempName == "tmp.wav"

InitVideo ==
    /\ v_file \in Range(Catalog)
    /\ v_pc = "call"
    /\ v_fault \in VideoFaults
    /\ v_close_raises \in BOOLEAN
    /\ temp_audio = "None" /\ tmp_exists = FALSE /\ clip_open = FALSE
    /\ v_outcome = "none"
    /\ BatchOff /\ WrapOff /\ StampOff /\ CatalogOff

video_frame == << batch_vars, wrap_vars, stamp_vars, catalog_vars, v_file, v_fault, v_close_raises >>

\* a step of the try block raises: control goes to the except clause
VRaise ==
    /\ v_pc' = "except"
    /\ UNCHANGED << temp_audio, tmp_exists, clip_open, v_outcome >>

\* transcribe_file, lines 227-232: the branch on the file type
VCall ==
    /\ v_pc = "call"
    /\ v_pc' = IF is_video(v_file) THEN "mktemp" ELSE "audio"
    /\ UNCHANGED << video_frame, temp_audio, tmp_exists, clip_open, v_outcome >>

\* _transcribe_audio on the file itself, lines 274-278: no temporary file
VAudio ==
    /\ v_pc = "audio"
    /\ v_outcome' = IF v_fault = "engine" THEN "RuntimeError" ELSE "result"
    /\ v_pc' = "exited"
    /\ UNCHANGED << video_frame, temp_audio, tmp_exists, clip_open >>

\* lines 150-151: NamedTemporaryFile(delete=False) creates the file
VMkTemp ==
    /\ v_pc = "mktemp"
    /\ IF v_fault = "tmpfile"
       THEN VRaise
       ELSE /\ temp_audio' = TempName
            /\ tmp_exists' = TRUE
            /\ v_pc' = "open"
            /\ UNCHANGED << clip_open, v_outcome >>
    /\ UNCHANGED video_frame

\* line 154: VideoFileClip(str(video_path))
VOpen ==
    /\ v_pc = "open"
    /\ IF v_fault = "open"
       THEN VRaise
       ELSE /\ clip_open' = TRUE
            /\ v_pc' = "audiocheck"
            /\ UNCHANGED << temp_audio, tmp_exists, v_outcome >>
    /\ UNCHANGED video_frame

\* lines 156-157: a clip without audio track raises RuntimeError
VAudioCheck ==
    /\ v_pc = "audiocheck"
    /\ IF v_fault = "noaudio"
       THEN VRaise
       ELSE v_pc' = "extract" /\ UNCHANGED << temp_audio, tmp_exists, clip_open, v_outcome >>
    /\ UNCHANGED video_frame

\* lines 159-163: write_audiofile fills the temporary file
VExtract ==
    /\ v_pc = "extract"
    /\ IF v_fault = "extract"
       THEN VRaise
       ELSE v_pc' = "yield" /\ UNCHANGED << temp_audio, tmp_exists, clip_open, v_outcome >>
    /\ UNCHANGED video_frame

\* line 165 and lines 287-289: the body of the with statement calls
\* _transcribe_audio on the temporary file; its error is thrown into the
\* generator at the yield, its return closes the generator normally
VTranscribe ==
    /\ v_pc = "yield"
    /\ IF v_fault = "engine"
       THEN VRaise
       ELSE /\ v_outcome' = "result"
            /\ v_pc' = "finally"
            /\ UNCHANGED << temp_audio, tmp_exists, clip_open >>
    /\ UNCHANGED video_frame

\* lines 167-168: every exception becomes a RuntimeError
VExcept ==
    /\ v_pc = "except"
    /\ v_outcome' = "RuntimeError"
    /\ v_pc' = "finally"
    /\ UNCHANGED << video_frame, temp_audio, tmp_exists, clip_open >>

\* lines 170-174: the clip is closed; an error of close() is swallowed
VClose ==
    /\ v_pc = "finally"
    /\ clip_open' = (clip_open /\ v_close_raises)
    /\ v_pc' = "cleanup"
    /\ UNCHANGED << video_frame, temp_audio, tmp_exists, v_outcome >>

\* a cleanup that runs only when the transcription returned
RemoveOnSuccess(temp, exists, outcome) == temp /= "None" /\ exists /\ outcome = "result"

\* line 176: if temp_audio and os.path.exists(temp_audio)
RemoveDue(temp, exists, outcome) == temp /= "None" /\ exists

\* lines 176-180, then lines 289-291: the temporary file is removed and
\* _transcribe_video returns or raises
VRemove ==
    /\ v_pc = "cleanup"
    /\ tmp_exists' = IF RemoveDue(temp_audio, tmp_exists, v_outcome) THEN FALSE ELSE tmp_exists
    /\ v_pc' = "exited"
    /\ UNCHANGED << video_frame, temp_audio, clip_open, v_outcome >>

NextVideo ==
    \/ VCall
    \/ VAudio
    \/ VMkTemp
    \/ VOpen
    \/ VAudioCheck
    \/ VExtract
    \/ VTranscribe
    \/ VExcept
    \/ VClose
    \/ VRemove

SpecVideo == InitVideo /\ [][NextVideo]_vars

(***************************************************************************)
(* save_as_srt for one segment: the text is stripped and, when longer than *)
(* max_line_length, broken once near its middle.  A text is a sequence of  *)
(* characters; the four CJK marks of line 321 carry ASCII names, NL is the *)
(* line feed.                                                              *)
(***************************************************************************)
\* range(10) of line 320
ScanWindow == 10
\* the default of max_line_length, line 304
DefaultMaxLineLength == 40

\* the characters of ' ，。！？'
BreakChars == {" ", "cjk_comma", "cjk_stop", "cjk_excl", "cjk_quest"}
\* the characters str.strip() removes that the texts of the model hold
Whitespace == {" "}
NL == "NL"

\* str.strip()
RECURSIVE Strip(_)
Strip(t) ==
    IF t = << >> THEN t
    ELSE IF Head(t) \in Whitespace THEN Strip(Tail(t))
    ELSE IF t[Len(t)] \in Whitespace THEN Strip(SubSeq(t, 1, Len(t) - 1))
    ELSE t

\* text[k] with the index of Python, from 0
CharAt(text, k) == text[k + 1]

\* text[:k + 1] + '\n' + text[k + 1:]
SplitAfter(text, k) ==
    SubSeq(text, 1, k + 1) \o << NL >> \o SubSeq(text, k + 2, Len(text))

\* a probe that tests mid - offset before mid + offset
ProbeMinusFirst(text, mid, offset) ==
    IF mid - offset >= 0 /\ CharAt(text, mid - offset) \in BreakChars
    THEN mid - offset
    ELSE IF mid + offset < Len(text) /\ CharAt(text, mid + offset) \in BreakChars
    THEN mid + offset
    ELSE 0 - 1

\* lines 321-326: the index this offset breaks at, -1 for none
Probe(text, mid, offset) ==
    IF mid + offset < Len(text) /\ CharAt(text, mid + offset) \in BreakChars
    THEN mid + offset
    ELSE IF mid - offset >= 0 /\ CharAt(text, mid - offset) \in BreakChars
    THEN mid - offset
    ELSE 0 - 1

\* lines 320-326: the loop over the offsets, left at the first break
RECURSIVE ScanFrom(_, _, _)
ScanFrom(text, mid, offset) ==
    IF offset >= ScanWindow THEN text
    ELSE IF Probe(text, mid, offset) >= 0
    THEN SplitAfter(text, Probe(text, mid, offset))
    ELSE ScanFrom(text, mid, offset + 1)

\* lines 313-326
Wrapped(raw, max_line_length) ==
    LET text == Strip(raw)
    IN  IF Len(text) > max_line_length
        THEN ScanFrom(text, Len(text) \div 2, 0)
        ELSE text

\* the text of n letters with the characters of marks at their positions
Letters(n, marks) ==
    [k \in 1..n |-> IF k \in DOMAIN marks THEN marks[k] ELSE "x"]

\* the marks the texts of the model hold: none, one or two, each a space
\* or a full stop
MarkSets(n) ==
    UNION { [ps -> {" ", "cjk_stop"}] :
              ps \in { {p, q} : p \in 1..n, q \in 1..n } \cup { {} } }

SegmentTexts ==
    UNION { { Letters(n, m) : m \in MarkSets(n) } : n \in 0..MaxTextLen }

WrapLimits == {0, 2, 10, DefaultMaxLineLength}

InitWrap ==
    /\ w_text \in SegmentTexts
    /\ w_max \in WrapLimits
    /\ w_out = << >>
    /\ w_pc = "call"
    /\ BatchOff /\ VideoOff /\ StampOff /\ CatalogOff

\* lines 313-330 for one segment
SaveSegment ==
    /\ w_pc = "call"
    /\ w_out' = Wrapped(w_text, w_max)
    /\ w_pc' = "written"
    /\ UNCHANGED << batch_vars, video_vars, stamp_vars, catalog_vars, w_text, w_max >>

NextWrap == SaveSegment

SpecWrap == InitWrap /\ [][NextWrap]_vars

(***************************************************************************)
(* The scan of batch_transcribe: the extensions argument is turned into a  *)
(* set and find_media_files walks the input directory.  An extension is    *)
(* [dot, name, upper]: whether it starts with a dot, its letters in lower  *)
(* case, whether it is written in upper case.                              *)
(***************************************************************************)
Ext(dot, name, upper) == [dot |-> dot, name |-> name, upper |-> upper]

\* str.lower()
Lower(e) == [e EXCEPT !.upper = FALSE]

\* f'.{ext}'
WithDot(e) == [e EXCEPT !.dot = TRUE]

\* line 194: ext.lower() if ext.startswith('.') else f'.{ext.lower()}'
NormalizeExt(e) == IF e.dot THEN Lower(e) ELSE WithDot(Lower(e))

\* the entries an input directory may hold, in the order sorted() gives
\* their paths: A.MP3, a.mp3, a.mp4, the directory b.mp3, notes.txt, the
\* directory sub, sub/c.wav, sub/d
TreeEntries ==
    << [depth |-> 0, kind |-> "file", suffix |-> Ext(TRUE, "mp3", TRUE)],
       [depth |-> 0, kind |-> "file", suffix |-> Ext(TRUE, "mp3", FALSE)],
       [depth |-> 0, kind |-> "file", suffix |-> Ext(TRUE, "mp4", FALSE)],
       [depth |-> 0, kind |-> "dir", suffix |-> Ext(TRUE, "mp3", FALSE)],
       [depth |-> 0, kind |-> "file", suffix |-> Ext(TRUE, "txt", FALSE)],
       [depth |-> 0, kind |-> "dir", suffix |-> Ext(FALSE, "", FALSE)],
       [depth |-> 1, kind |-> "file", suffix |-> Ext(TRUE, "wav", FALSE)],
       [depth |-> 1, kind |-> "file", suffix |-> Ext(FALSE, "", FALSE)] >>

\* the values of the extensions argument: absent, empty, with and without
\* dot, in upper case, naming no media extension, naming two extensions
ExtensionArgs ==
    { [given |-> FALSE, list |-> << >>],
      [given |-> TRUE, list |-> << >>],
      [given |-> TRUE, list |-> << Ext(FALSE, "mp3", FALSE) >>],
      [given |-> TRUE, list |-> << Ext(TRUE, "mp3", TRUE) >>],
      [given |-> TRUE, list |-> << Ext(FALSE, "txt", FALSE) >>],
      [given |-> TRUE, list |-> << Ext(FALSE, "", FALSE) >>],
      [given |-> TRUE, list |-> << Ext(TRUE, "wav", FALSE), Ext(FALSE, "mp4", TRUE) >>] }

\* lines 192-195: None unless the argument is truthy
ext_set(extensions) ==
    IF extensions.given /\ extensions.list /= << >>
    THEN [none |-> FALSE, set |-> { NormalizeExt(e) : e \in Range(extensions.list) }]
    ELSE [none |-> TRUE, set |-> {}]

\* line 54 and line 57: the entries glob yields
Globbed(tree, recursive) ==
    { k \in tree : recursive \/ TreeEntries[k].depth = 0 }

\* lines 60 and 82, 86: the lower-cased suffix is in one of the two sets
is_media_suffix(sfx) ==
    /\ Lower(sfx).dot
    /\ is_audio([ext |-> Lower(sfx).name]) \/ is_video([ext |-> Lower(sfx).name])

\* lines 57-63: the entries appended to media_files
Appended(tree, recursive, exts) ==
    { k \in Globbed(tree, recursive) :
        /\ TreeEntries[k].kind = "file"
        /\ is_media_suffix(TreeEntries[k].suffix)
        /\ exts.none \/ Lower(TreeEntries[k].suffix) \in exts.set }

\* line 65: sorted(media_files)
RECURSIVE Sorted(_)
Sorted(ks) ==
    IF ks = {} THEN << >>
    ELSE LET least == CHOOSE k \in ks : \A j \in ks : k <= j
         IN  << least >> \o Sorted(ks \ {least})

InitCatalog ==
    /\ c_tree \in SUBSET (1..Len(TreeEntries))
    /\ c_recursive \in BOOLEAN
    /\ c_extensions \in ExtensionArgs
    /\ c_out = << >>
    /\ c_pc = "call"
    /\ BatchOff /\ VideoOff /\ WrapOff /\ StampOff

\* batch_transcribe lines 192-199 with find_media_files lines 54-65
Discover ==
    /\ c_pc = "call"
    /\ c_out' = Sorted(Appended(c_tree, c_recursive, ext_set(c_extensions)))
    /\ c_pc' = "returned"
    /\ UNCHANGED << batch_vars, video_vars, wrap_vars, stamp_vars,
                    c_tree, c_recursive, c_extensions >>

NextCatalog == Discover

SpecCatalog == InitCatalog /\ [][NextCatalog]_vars

(***************************************************************************)
(* _format_timestamp.  seconds is a Python float, an IEEE 754 double: the  *)
(* double nearest to t / 1000 for a time of t milliseconds.  A double that *)
(* is not negative is [int, frac]: its integer part and the bits of its    *)
(* fraction, the most significant first.                                   *)
(***************************************************************************)
\* the significant bits of a double
MantissaBits == 53
\* line 337: * 1000
MillisPerSecond == 1000

\* the number of bits of n
RECURSIVE BitLen(_)
BitLen(n) == IF n = 0 THEN 0 ELSE 1 + BitLen(n \div 2)

\* the number of leading zero bits of a fraction
RECURSIVE LeadingZeros(_)
LeadingZeros(bits) ==
    IF bits = << >> \/ Head(bits) = 1 THEN 0 ELSE 1 + LeadingZeros(Tail(bits))

\* the fraction bits a double with this integer part and fraction holds
KeptLen(int, frac) ==
    IF int > 0 THEN MantissaBits - BitLen(int)
    ELSE IF \E j \in 1..Len(frac) : frac[j] = 1 THEN LeadingZeros(frac) + MantissaBits
    ELSE Len(frac)

\* bits + 1 for bits that are not all 1
Inc(bits) ==
    LET p == CHOOSE j \in 1..Len(bits) :
                 bits[j] = 0 /\ \A m \in (j + 1)..Len(bits) : bits[m] = 1
    IN  [j \in 1..Len(bits) |-> IF j < p THEN bits[j] ELSE IF j = p THEN 1 ELSE 0]

\* round to nearest, ties to even: the double nearest to the exact value
RoundNearest(int, frac) ==
    LET kept == KeptLen(int, frac)
    IN  IF Len(frac) <= kept THEN [int |-> int, frac |-> frac]
        ELSE LET head == SubSeq(frac, 1, kept)
                 guard == frac[kept + 1]
                 sticky == \E j \in (kept + 2)..Len(frac) : frac[j] = 1
                 odd == IF kept = 0 THEN int % 2 = 1 ELSE head[kept] = 1
                 up == guard = 1 /\ (sticky \/ odd)
             IN  IF ~up THEN [int |-> int, frac |-> head]
                 ELSE IF \A j \in 1..kept : head[j] = 1
                 THEN [int |-> int + 1, frac |-> [j \in 1..kept |-> 0]]
                 ELSE [int |-> int, frac |-> Inc(head)]

\* 2^n
RECURSIVE Pow2(_)
Pow2(n) == IF n = 0 THEN 1 ELSE 2 * Pow2(n - 1)

\* 2^n modulo den, by squaring
RECURSIVE Pow2Mod(_, _)
Pow2Mod(n, den) ==
    IF n = 0 THEN 1 % den
    ELSE LET h == Pow2Mod(n \div 2, den)
         IN  (((h * h) % den) * (IF n % 2 = 1 THEN 2 ELSE 1)) % den

\* what is left of rem / den after its first n bits, times den
RemAfter(rem, den, n) == (rem * Pow2Mod(n, den)) % den

\* bit n of the binary expansion of rem / den, for rem < den
BitOf(rem, den, n) == IF 2 * RemAfter(rem, den, n - 1) >= den THEN 1 ELSE 0

\* the bits of rem / den next to the integer part int: as many as the
\* double keeps, then the bit after them and one bit that tells whether
\* more follow
Expand(rem, den, int) ==
    IF rem = 0 THEN << >>
    ELSE LET first == CHOOSE n \in 1..BitLen(den) :
                          BitOf(rem, den, n) = 1 /\ \A m \in 1..(n - 1) : BitOf(rem, den, m) = 0
             kept == IF int > 0 THEN MantissaBits - BitLen(int)
                     ELSE first - 1 + MantissaBits
         IN  [n \in 1..(kept + 2) |->
                IF n <= kept + 1 THEN BitOf(rem, den, n)
                ELSE IF RemAfter(rem, den, kept + 1) /= 0 THEN 1 ELSE 0]

\* the float of t / 1000
FloatSeconds(t) ==
    RoundNearest(t \div MillisPerSecond,
                 Expand(t % MillisPerSecond, MillisPerSecond, t \div MillisPerSecond))

\* the bits of a fraction are multiplied in groups of LimbBits bits
LimbBits == 16

\* the number the bits read as
RECURSIVE BitsValue(_)
BitsValue(bits) ==
    IF bits = << >> THEN 0
    ELSE 2 * BitsValue(SubSeq(bits, 1, Len(bits) - 1)) + bits[Len(bits)]

\* group g of the fraction, with zeros after its last bit
Limb(frac, g) ==
    BitsValue([j \in 1..LimbBits |->
                 IF (g - 1) * LimbBits + j <= Len(frac)
                 THEN frac[(g - 1) * LimbBits + j] ELSE 0])

\* the exact product of the groups 1..g and m, plus carry: the last group
\* is multiplied first, what is carried out of the first is the integer part
RECURSIVE TimesFrom(_, _, _, _)
TimesFrom(frac, m, g, carry) ==
    IF g = 0 THEN [int |-> carry, limbs |-> << >>]
    ELSE LET v == Limb(frac, g) * m + carry
             high == TimesFrom(frac, m, g - 1, v \div Pow2(LimbBits))
         IN  [int |-> high.int, limbs |-> Append(high.limbs, v % Pow2(LimbBits))]

\* x * m in floating point, for a fraction x
FloatTimes(frac, m) ==
    LET groups == (Len(frac) + LimbBits - 1) \div LimbBits
        exact == TimesFrom(frac, m, groups, 0)
        bits == [j \in 1..Len(frac) |->
                   (exact.limbs[(j - 1) \div LimbBits + 1]
                      \div Pow2(LimbBits - 1 - ((j - 1) % LimbBits))) % 2]
    IN  RoundNearest(exact.int, bits)

\* the decimal digits of n
RECURSIVE Digits(_)
Digits(n) == IF n < 10 THEN << n >> ELSE Append(Digits(n \div 10), n % 10)

\* f"{n:0{width}d}": zero-padded to at least width digits
RECURSIVE ZeroPad(_, _)
ZeroPad(ds, width) == IF Len(ds) >= width THEN ds ELSE ZeroPad(<< 0 >> \o ds, width)

\* lines 334-339.  seconds // 3600, seconds % 3600, // 60 and seconds % 60
\* are exact on a double and depend on its integer part only; seconds % 1
\* is its fraction, exactly; the product with 1000 is rounded
format_timestamp(t) ==
    LET seconds == FloatSeconds(t)
        hours == seconds.int \div 3600
        minutes == (seconds.int % 3600) \div 60
        secs == seconds.int % 60
        millis == FloatTimes(seconds.frac, MillisPerSecond).int
    IN  [hh |-> ZeroPad(Digits(hours), 2), mm |-> ZeroPad(Digits(minutes), 2),
         ss |-> ZeroPad(Digits(secs), 2), mmm |-> ZeroPad(Digits(millis), 3)]

\* times beyond MaxMillis: 3725.4 s, a minute, an hour, a hundred hours
StampSamples == {3725400, 59999, 60000, 3599999, 3600000, 360000000}

InitStamp ==
    /\ t_ms \in (0..MaxMillis) \cup StampSamples
    /\ t_out = << >>
    /\ t_pc = "call"
    /\ BatchOff /\ VideoOff /\ WrapOff /\ CatalogOff

\* lines 332-339
FormatTimestamp ==
    /\ t_pc = "call"
    /\ t_out' = format_timestamp(t_ms)
    /\ t_pc' = "returned"
    /\ UNCHANGED << batch_vars, video_vars, wrap_vars, catalog_vars, t_ms >>

NextStamp == FormatTimestamp

SpecStamp == InitStamp /\ [][NextStamp]_vars

(***************************************************************************)
(* Vocabulary of the properties.                                           *)
(***************************************************************************)
Completed == exit_cause = "completed"
Returned(i) == jpc[i] \in {"finished", "collected"}
Started(i) == jpc[i] \in {"transcribe", "finished", "collected"}
\* the counter the tally increments for the result of job i
Recorded(i) ==
    LET c == Tally(ZeroCounts, ret[i])
    IN  IF c.skip = 1 THEN "Skipped" ELSE IF c.success = 1 THEN "Success" ELSE "Failed"
\* transcribe_file or a write of job i raised
EngineOrWriteRaised(i) == raised[i] \in {"engine", "write"}
\* every requested output of the file at position i is in d
AllOutputsIn(i, d) == OutputPaths(media_files[i], formats) \subseteq d
\* the output paths job i computed from its output_dir and base_name
JobPaths(i) ==
    { [dir |-> job_out[i].dir, name |-> job_out[i].name, ext |-> fmt] :
        fmt \in Range(formats) }

\* the counters of the run that processes the files from position k on, one
\* after the other in list order, starting with the output files d, when the
\* filesystem accepts every write
RECURSIVE SeqRun(_, _, _)
SeqRun(k, d, c) ==
    IF k > N THEN c
    ELSE IF ShouldSkip(media_files[k], formats, force, d)
    THEN SeqRun(k + 1, d, Tally(c, SkipResult(media_files[k])))
    ELSE LET o == Transcribed(media_files[k], formats, d, k \in engine_raises,
                              Len(WritePlan(formats)))
         IN  SeqRun(k + 1, o.disk, Tally(c, o.ret))

(***************************************************************************)
(* C1: when the run has logged its summary, the files recorded as Failed   *)
(* are exactly those whose transcription or output writing raised an       *)
(* error; every other file has its own result (Success or Skipped).        *)
(***************************************************************************)
C1_FailureIsLocal ==
    Completed =>
        /\ \A i \in Jobs : (Recorded(i) = "Failed") <=> EngineOrWriteRaised(i)
        /\ counts.fail = Cardinality({ i \in Jobs : EngineOrWriteRaised(i) })

(***************************************************************************)
(* C2: a file that is not skipped, for which transcribe_file returns       *)
(* normally and the filesystem accepts every write, has one output file    *)
(* per requested format and is a Success, for every non-empty list of      *)
(* formats.                                                                *)
(***************************************************************************)
C2_OutputsWritten ==
    \A i \in Jobs :
        ( /\ Returned(i)
          /\ formats /= << >>
          /\ gateway_calls[i] = 1
          /\ ~EngineOrWriteRaised(i) )
        => /\ AllOutputsIn(i, disk)
           /\ ret[i] = DoneResult(media_files[i])
           /\ Recorded(i) = "Success"

(***************************************************************************)
(* C3: without force, a file whose requested outputs all exist when the    *)
(* run starts is Skipped and transcribe_file is not called for it; with    *)
(* force, transcribe_file is called for every file whose job returned.     *)
(***************************************************************************)
C3_SkipAndForce ==
    \A i \in Jobs :
        Returned(i) =>
            /\ ((~force) /\ AllOutputsIn(i, disk0))
                 => (Recorded(i) = "Skipped" /\ gateway_calls[i] = 0)
            /\ force => gateway_calls[i] = 1

(***************************************************************************)
(* C4: the skip check answers "complete" exactly when an output file       *)
(* exists for every requested format, for every list of formats.           *)
(***************************************************************************)
C4_CompleteIffAllExist ==
    \A i \in Jobs :
        (Started(i) /\ ~force) =>
            ((ret[i] = SkipResult(media_files[i])) <=> AllOutputsIn(i, disk0))

C6_OutputPathsDisjoint ==
    \A i, j \in Jobs :
        (i /= j /\ Started(i) /\ Started(j)) => JobPaths(i) \cap JobPaths(j) = {}

C9_OneResultPerFile ==
    /\ \A i \in Jobs : gateway_calls[i] <= 1 /\ tallied[i] <= 1
    /\ Completed =>
         /\ \A i \in Jobs : tallied[i] = 1
         /\ counts.success + counts.skip + counts.fail = N

C9_Witness ==
    /\ Completed
    /\ max_workers = 2
    /\ N = 2
    /\ counts.skip = 1
    /\ counts.fail = 1
    /\ \E i \in Jobs : gateway_calls[i] = 1

(***************************************************************************)
(* C10: the exit status is 0 after the summary and when no media file is   *)
(* found; it is not 0 for a missing or non-directory input (and no job     *)
(* was started) and for an uncaught error; the status of a user interrupt  *)
(* is not 0 and differs from the status of those failures.                 *)
(***************************************************************************)
C10_ExitStatus ==
    /\ exit_cause \in {"completed", "nofiles"} => exit_status = 0
    /\ exit_cause = "baddir" =>
         (exit_status /= 0 /\ media_files = << >> /\ disk = disk0)
    /\ exit_cause = "error" => exit_status /= 0
    /\ exit_cause = "interrupt" =>
         (exit_status /= 0 /\ exit_status \notin {ExitBadInput, ExitError})

(***************************************************************************)
(* C12: with max_workers = 1 the files are processed one at a time in the  *)
(* order of the list: the job of a file has not started (no skip check, no *)
(* call of transcribe_file, no write) before the job of every file before  *)
(* it in the list has returned its result.                                 *)
(***************************************************************************)
C12_SequentialInListOrder ==
    max_workers = 1 =>
        \A j \in Jobs :
            jpc[j] /= "idle" =>
                \A i \in 1..(j - 1) : Returned(i) /\ tallied[i] = 1

C12_Witness ==
    /\ max_workers = 1
    /\ N = 2
    /\ jpc[1] = "collected"
    /\ jpc[2] = "transcribe"

(***************************************************************************)
(* C13: with max_workers > 1, at every moment the number of jobs that have *)
(* started and not yet produced their result is at most max_workers; the   *)
(* other submitted files wait in the queue.                                *)
(***************************************************************************)
C13_AtMostWorkersInFlight ==
    max_workers > 1 =>
        /\ Cardinality(InFlight) <= max_workers
        /\ \A i \in Jobs :
             jpc[i] \in {"begin", "transcribe"} =>
                 Cardinality({ j \in 1..(i - 1) : ~Returned(j) }) < max_workers

\* every worker is busy and a submitted file waits
C13_Witness ==
    /\ max_workers > 1
    /\ Cardinality(InFlight) = max_workers
    /\ \E i \in Jobs : jpc[i] = "queued"

(***************************************************************************)
(* C14: after a KeyboardInterrupt has arrived during a batch run, no job   *)
(* that has not started yet is started any more, with max_workers = 1 and  *)
(* with max_workers > 1.                                                   *)
(***************************************************************************)
Interrupted == pc = "draining" \/ exit_cause = "interrupt"

NotStarted(i) == jpc[i] \in {"idle", "queued"}

C14_NoStartAfterInterrupt ==
    [][Interrupted => \A i \in Jobs : NotStarted(i) => NotStarted(i)']_vars

BreakHits(t) ==
    LET mid == Len(t) \div 2
    IN  { h \in (0..(ScanWindow - 1)) \X {0, 1} :
            LET k == IF h[2] = 0 THEN mid + h[1] ELSE mid - h[1]
            IN  k >= 0 /\ k < Len(t) /\ CharAt(t, k) \in BreakChars }

C16_SplitAtFirstBreak ==
    w_pc = "written" =>
        LET t == Strip(w_text)
            mid == Len(t) \div 2
        IN  IF Len(t) <= w_max \/ BreakHits(t) = {}
            THEN w_out = t
            ELSE \E h \in BreakHits(t) :
                   /\ \A g \in BreakHits(t) : 2 * h[1] + h[2] <= 2 * g[1] + g[2]
                   /\ w_out = SplitAfter(t, IF h[2] = 0 THEN mid + h[1] ELSE mid - h[1])

\* a text with a break character on either side of the middle, at the same
\* distance, split at the one after the middle
C16_Witness ==
    /\ w_pc = "written"
    /\ Len(Strip(w_text)) = 20
    /\ w_max = 10
    /\ CharAt(Strip(w_text), 13) = " "
    /\ CharAt(Strip(w_text), 7) = "cjk_stop"
    /\ w_out = SplitAfter(Strip(w_text), 13)

(***************************************************************************)
(* C19: for every text and every max_line_length >= 0 the cue text holds   *)
(* at most one inserted line break, deleting it gives back the stripped    *)
(* text, and when a break is inserted both lines are non-empty.            *)
(***************************************************************************)
\* the positions of the line breaks of the cue text
Breaks(out) == { k \in 1..Len(out) : out[k] = NL }

\* out without its line breaks
RECURSIVE Unbroken(_)
Unbroken(out) ==
    IF out = << >> THEN out
    ELSE (IF Head(out) = NL THEN << >> ELSE << Head(out) >>) \o Unbroken(Tail(out))

C19_OneBreakBothLinesNonEmpty ==
    w_pc = "written" =>
        /\ Cardinality(Breaks(w_out)) <= 1
        /\ Unbroken(w_out) = Strip(w_text)
        /\ \A k \in Breaks(w_out) : k > 1 /\ k < Len(w_out)

(***************************************************************************)
(* C17: the scan returns, in path order and without duplicates, exactly    *)
(* the regular files in scope (direct children, or the whole subtree when  *)
(* recursive) whose lower-cased extension is an audio or video extension   *)
(* and, whenever a filter is supplied, is in the normalized filter; also   *)
(* for an empty filter and for one naming no media extension.              *)
(***************************************************************************)
\* the entries the claim expects
Qualifying ==
    { k \in c_tree :
        /\ c_recursive \/ TreeEntries[k].depth = 0
        /\ TreeEntries[k].kind = "file"
        /\ is_media_suffix(TreeEntries[k].suffix)
        /\ c_extensions.given =>
             \E e \in Range(c_extensions.list) :
                 NormalizeExt(e) = Lower(TreeEntries[k].suffix) }

C17_ExactlyFilteredMedia ==
    c_pc = "returned" =>
        /\ Range(c_out) = Qualifying
        /\ \A i \in 1..Len(c_out) : \A j \in 1..Len(c_out) : i < j => c_out[i] < c_out[j]

(***************************************************************************)
(* C18: for every time of t whole milliseconds, t >= 0, the formatter      *)
(* returns HH:MM:SS,mmm with HH, MM, SS of at least 2 digits, mmm of 3     *)
(* digits, MM < 60, SS < 60, mmm < 1000 and                                *)
(* HH * 3600000 + MM * 60000 + SS * 1000 + mmm = t.                        *)
(***************************************************************************)
\* the number a string of digits reads as
RECURSIVE Value(_)
Value(ds) == IF ds = << >> THEN 0 ELSE 10 * Value(SubSeq(ds, 1, Len(ds) - 1)) + ds[Len(ds)]

C18_TimestampExact ==
    t_pc = "returned" =>
        /\ Len(t_out.hh) >= 2 /\ Len(t_out.mm) = 2 /\ Len(t_out.ss) = 2 /\ Len(t_out.mmm) = 3
        /\ Value(t_out.mm) < 60 /\ Value(t_out.ss) < 60 /\ Value(t_out.mmm) < 1000
        /\ Value(t_out.hh) * 3600000 + Value(t_out.mm) * 60000
             + Value(t_out.ss) * 1000 + Value(t_out.mmm) = t_ms

====
